---------------------------- MODULE Spec2Model ----------------------------
(***************************************************************************)
(* Model of the chapter-3 text-generation adapter (examples/ch03/models.py *)
(* and main.py) and of the chapter-2 user-creation endpoint               *)
(* (examples/ch02/2-2-mod.py).                                             *)
(*                                                                         *)
(* Python strings are modelled as sequences of one-character strings, so   *)
(* that find, split, strip, startswith and slicing are computed character  *)
(* by character as CPython computes them.  Python's None is the empty      *)
(* tuple <<>> and a present value v is the one-element tuple <<v>>.        *)
(* Floating-point parameters are written in hundredths (0.7 is 70).        *)
(***************************************************************************)
EXTENDS Integers, Sequences, FiniteSets, TLC

VARIABLES
  pc,              \* position of the request: idle, loaded, formatted, posted,
                   \* running, returned, raised
  model_name,      \* the identifier given to load_text_model
  pipe,            \* what load_text_model returned
  caller,          \* who calls the pipe: generate_text or a direct caller
  messages,        \* the conversation handed to apply_chat_template
  formatted_prompt,
  args,            \* keyword arguments of the call pipe(...)
  requests,        \* requests.post calls issued, in order
  pipeline_loads,  \* transformers.pipeline(...) constructions, in order
  pipeline_calls,  \* invocations of the local pipeline, in order
  response,        \* the remote server's answer, once received
  output,          \* text returned to the caller
  error,           \* exception that reached the caller
  user_request,    \* body of POST /users, once received
  user_response,   \* answer to POST /users
  db_users,        \* committed rows of table users (test.db)
  db_messages,     \* committed rows of table messages (test.db)
  seed_pc,         \* position of the 2-4-mod application: stopped,
                   \* adding_users, adding_messages, serving, failed
  seeded_ids,      \* ids of user1 and user2 once their commit is done
  completed_runs,  \* runs of add_sample_data that returned
  interrupted_runs,\* runs of add_sample_data cut short by the process ending
  api_reply        \* answer of the last GET request

vars == <<pc, model_name, pipe, caller, messages, formatted_prompt, args,
          requests, pipeline_loads, pipeline_calls, response, output, error,
          user_request, user_response, db_users, db_messages, seed_pc,
          seeded_ids, completed_runs, interrupted_runs, api_reply>>

seed_vars == <<db_users, db_messages, seed_pc, seeded_ids, completed_runs,
               interrupted_runs, api_reply>>

adapter_vars == <<pc, model_name, pipe, caller, messages, formatted_prompt,
                  args, requests, pipeline_loads, pipeline_calls, response,
                  output, error>>

None == <<>>
Some(v) == <<v>>

---------------------------------------------------------------------------
(* String literals of the source.                                          *)

THINK_START ==
  <<"<","t","h","i","n","k",">">>

THINK_END ==
  <<"<","/","t","h","i","n","k",">">>

SYSTEM_TAG ==
  <<"<","|","s","y","s","t","e","m","|",">">>

USER_TAG ==
  <<"<","|","u","s","e","r","|",">">>

ASSISTANT_TAG ==
  <<"<","|","a","s","s","i","s","t","a","n","t","|",">">>

NL ==
  <<"\n">>

OLLAMA_PREFIX ==
  <<"o","l","l","a","m","a",":">>

API_ERROR_PREFIX ==
  <<"O","l","l","a","m","a"," ","A","P","I"," ","e","r","r","o","r",":"," ">>

CHAT_PATH ==
  <<"/","a","p","i","/","c","h","a","t">>

BASE_URL ==
  <<"h","t","t","p",":","/","/","l","o","c","a","l","h","o","s","t",":","1",
    "1","4","3","4">>

EOS_ASSISTANT ==
  <<"<","/","s",">","\n","<","|","a","s","s","i","s","t","a","n","t","|",">",
    "\n">>

DEFAULT_MODEL ==
  <<"T","i","n","y","L","l","a","m","a","/","T","i","n","y","L","l","a","m",
    "a","-","1",".","1","B","-","C","h","a","t","-","v","1",".","0">>

MAIN_MODEL ==
  <<"o","l","l","a","m","a",":","q","w","e","n","3",":","0",".","6","b">>

system_prompt ==
  <<"\n","Y","o","u","r"," ","n","a","m","e"," ","i","s"," ","F","a","s","t",
    "A","P","I"," ","b","o","t"," ","a","n","d"," ","y","o","u"," ","a",
    "r","e"," ","a"," ","h","e","l","p","f","u","l","\n","c","h","a","t",
    "b","o","t"," ","r","e","s","p","o","n","s","i","b","l","e"," ","f",
    "o","r"," ","t","e","a","c","h","i","n","g"," ","F","a","s","t","A",
    "P","I"," ","t","o"," ","y","o","u","r"," ","u","s","e","r","s",".",
    "\n","A","l","w","a","y","s"," ","r","e","s","p","o","n","d"," ","i",
    "n"," ","m","a","r","k","d","o","w","n",".","\n">>

DEFAULT_TEMPERATURE == 70
GEN_MAX_NEW_TOKENS == 256
GEN_TOP_K == 50
GEN_TOP_P == 95
STATUS_OK == 200
MIN_PASSWORD_LEN == 8

---------------------------------------------------------------------------
(* Python string operations.                                               *)

Min(a, b) == IF a < b THEN a ELSE b

\* a slice bound as Python normalises it: negative counts from the end
Bound(s, a) ==
  IF a < 0 THEN (IF Len(s) + a < 0 THEN 0 ELSE Len(s) + a)
  ELSE Min(a, Len(s))

\* s[a:b] (indices from 0, b exclusive)
Slice(s, a, b) ==
  LET lo == Bound(s, a)
      hi == Bound(s, b)
  IN  IF hi <= lo THEN <<>> ELSE SubSeq(s, lo + 1, hi)

\* s[a:]
SliceFrom(s, a) == Slice(s, a, Len(s))

\* whether p occurs in s at offset i (from 0)
MatchAt(s, p, i) ==
  /\ i + Len(p) <= Len(s)
  /\ \A k \in 1..Len(p) : s[i + k] = p[k]

\* s.find(p): offset of the first occurrence, -1 when there is none
find(s, p) ==
  LET hits == {i \in 0..(Len(s) - Len(p)) : MatchAt(s, p, i)}
  IN  IF hits = {} THEN -1
      ELSE CHOOSE i \in hits : \A j \in hits : i <= j

\* p in s
In(p, s) == find(s, p) # -1

\* s.startswith(p)
startswith(s, p) == MatchAt(s, p, 0)

\* s.split(sep), sep non-empty: the list of pieces
RECURSIVE split(_, _)
split(s, sep) ==
  LET i == find(s, sep)
  IN  IF i = -1 THEN <<s>>
      ELSE <<Slice(s, 0, i)>> \o split(SliceFrom(s, i + Len(sep)), sep)

\* characters str.strip() removes
Whitespace == {" ", "\n", "\t", "\r", "\f"}

RECURSIVE lstrip(_)
lstrip(s) ==
  IF s # <<>> /\ Head(s) \in Whitespace THEN lstrip(Tail(s)) ELSE s

RECURSIVE rstrip(_)
rstrip(s) ==
  IF s # <<>> /\ s[Len(s)] \in Whitespace
  THEN rstrip(SubSeq(s, 1, Len(s) - 1)) ELSE s

\* s.strip()
strip(s) == rstrip(lstrip(s))

\* concatenation of a list of strings
RECURSIVE Concat(_)
Concat(ss) == IF ss = <<>> THEN <<>> ELSE Head(ss) \o Concat(Tail(ss))

---------------------------------------------------------------------------
(* examples/ch03/models.py                                                 *)

Msg(r, c) == [role |-> r, content |-> c]

\* one iteration of the loop of DummyTokenizer.apply_chat_template
FormatMessage(message) ==
  IF message.role = "system" THEN SYSTEM_TAG \o NL \o message.content \o NL
  ELSE IF message.role = "user" THEN USER_TAG \o NL \o message.content \o NL
  ELSE IF message.role = "assistant"
       THEN ASSISTANT_TAG \o NL \o message.content \o NL
  ELSE <<>>

RECURSIVE FormatMessages(_)
FormatMessages(msgs) ==
  IF msgs = <<>> THEN <<>>
  ELSE FormatMessage(Head(msgs)) \o FormatMessages(Tail(msgs))

\* DummyTokenizer.apply_chat_template(messages, tokenize=False, add_generation_prompt)
apply_chat_template(msgs, add_generation_prompt) ==
  FormatMessages(msgs)
    \o (IF add_generation_prompt THEN ASSISTANT_TAG \o NL ELSE <<>>)

\* The chat template of the local pipeline's own tokenizer, in the shape
\* generate_text expects of it: every turn closed by "</s>\n" and the
\* generation prompt "<|assistant|>\n" at the end.
RECURSIVE HFFormatMessages(_)
HFFormatMessages(msgs) ==
  IF msgs = <<>> THEN <<>>
  ELSE <<"<", "|">> \o Head(msgs).role_chars \o <<"|", ">">> \o NL
         \o Head(msgs).content \o <<"<", "/", "s", ">">> \o NL
         \o HFFormatMessages(Tail(msgs))

HFChatTemplate(msgs) ==
  HFFormatMessages(
    [i \in 1..Len(msgs) |->
       [role_chars |-> IF msgs[i].role = "system"
                       THEN <<"s","y","s","t","e","m">>
                       ELSE IF msgs[i].role = "user"
                       THEN <<"u","s","e","r">>
                       ELSE <<"a","s","s","i","s","t","a","n","t">>,
        content |-> msgs[i].content]])
    \o ASSISTANT_TAG \o NL

\* Python raises IndexError when a list has no element [1]
Raised(type, message) == [type |-> type, message |-> message]

IndexError ==
  Raised("IndexError",
         <<"l","i","s","t"," ","i","n","d","e","x"," ","o","u","t"," ","o",
           "f"," ","r","a","n","g","e">>)

\* OllamaModel.__call__, the system message: None when the tag is absent
ParseSystem(prompt) ==
  IF In(SYSTEM_TAG, prompt)
  THEN LET parts == split(prompt, SYSTEM_TAG \o NL)
       IN  IF Len(parts) < 2 THEN [raised |-> TRUE, messages |-> <<>>]
           ELSE [raised |-> FALSE,
                 messages |->
                   <<Msg("system",
                         strip(split(parts[2], NL \o USER_TAG)[1]))>>]
  ELSE [raised |-> FALSE, messages |-> <<>>]

\* ParseUser without the cut at the generation prompt
ParseUserNoCut(prompt) ==
  IF In(USER_TAG, prompt)
  THEN LET parts == split(prompt, USER_TAG \o NL)
       IN  IF Len(parts) < 2 THEN [raised |-> TRUE, messages |-> <<>>]
           ELSE [raised |-> FALSE,
                 messages |-> <<Msg("user", strip(parts[2]))>>]
  ELSE [raised |-> FALSE, messages |-> <<>>]

\* OllamaModel.__call__, the user message
ParseUser(prompt) ==
  IF In(USER_TAG, prompt)
  THEN LET parts == split(prompt, USER_TAG \o NL)
       IN  IF Len(parts) < 2 THEN [raised |-> TRUE, messages |-> <<>>]
           ELSE [raised |-> FALSE,
                 messages |->
                   <<Msg("user",
                         strip(split(parts[2], NL \o ASSISTANT_TAG)[1]))>>]
  ELSE [raised |-> FALSE, messages |-> <<>>]

\* OllamaModel.__call__, the message list re-parsed from the prompt
ParseMessages(prompt) ==
  LET sys == ParseSystem(prompt)
      usr == ParseUser(prompt)
      got == sys.messages \o usr.messages
  IN  IF sys.raised \/ usr.raised THEN [raised |-> TRUE, messages |-> <<>>]
      ELSE IF got = <<>>
           THEN [raised |-> FALSE, messages |-> <<Msg("user", prompt)>>]
      ELSE [raised |-> FALSE, messages |-> got]

\* keyword arguments of a call pipe(prompt, ...)
CallArgs(temperature, max_new_tokens, top_k, top_p) ==
  [temperature |-> temperature, max_new_tokens |-> max_new_tokens,
   do_sample |-> TRUE, top_k |-> top_k, top_p |-> top_p]

\* OptionalKey testing the value's truth instead of "is not None"
OptionalKeyTruthy(key, value) ==
  IF value # None /\ value[1] # 0 THEN key :> value[1] ELSE <<>>

\* OllamaModel.__call__, the optional keys of the payload
OptionalKey(key, value) ==
  IF value # None THEN key :> value[1] ELSE <<>>

\* OllamaModel.__call__, the JSON body of the request
BuildPayload(ollama_model_name, msgs, a) ==
  ( "model" :> ollama_model_name @@ "messages" :> msgs
      @@ "temperature" :> a.temperature @@ "stream" :> FALSE )
    @@ OptionalKey("max_tokens", a.max_new_tokens)
    @@ OptionalKey("top_p", a.top_p)
    @@ OptionalKey("top_k", a.top_k)

\* StripThink without the trim of the text after the end marker
StripThinkNoTrim(generated_text) ==
  IF In(THINK_START, generated_text) /\ In(THINK_END, generated_text)
  THEN LET think_start == find(generated_text, THINK_START)
           think_end == find(generated_text, THINK_END) + Len(THINK_END)
       IN  Slice(generated_text, 0, think_start)
             \o SliceFrom(generated_text, think_end)
  ELSE generated_text

\* StripThink with "or" for "and" in its test
StripThinkEither(generated_text) ==
  IF In(THINK_START, generated_text) \/ In(THINK_END, generated_text)
  THEN LET think_start == find(generated_text, THINK_START)
           think_end == find(generated_text, THINK_END) + Len(THINK_END)
       IN  Slice(generated_text, 0, think_start)
             \o strip(SliceFrom(generated_text, think_end))
  ELSE generated_text

\* OllamaModel.__call__, removal of the <think> span
StripThink(generated_text) ==
  IF In(THINK_START, generated_text) /\ In(THINK_END, generated_text)
  THEN LET think_start == find(generated_text, THINK_START)
           think_end == find(generated_text, THINK_END) + Len(THINK_END)
       IN  Slice(generated_text, 0, think_start)
             \o strip(SliceFrom(generated_text, think_end))
  ELSE generated_text

\* load_text_model, the model name handed to OllamaModel
OllamaModelName(name) == split(name, OLLAMA_PREFIX)[2]

\* IsOllama with "in" for startswith
IsOllamaAnywhere(name) == In(OLLAMA_PREFIX, name)

\* load_text_model, the test that selects the remote backend
IsOllama(name) == startswith(name, OLLAMA_PREFIX)

NoPipe == [kind |-> "none", model_name |-> <<>>, base_url |-> <<>>]

\* OllamaModel.__init__
OllamaModel(name) ==
  [kind |-> "OllamaModel", model_name |-> name, base_url |-> BASE_URL]

\* transformers.pipeline("text-generation", model=model_name, ...)
Pipeline(name) ==
  [kind |-> "Pipeline", model_name |-> name, base_url |-> <<>>]

\* generate_text, the text taken from the local pipeline's prediction
LocalOutput(generated_text) ==
  LET parts == split(generated_text, EOS_ASSISTANT) IN parts[Len(parts)]

---------------------------------------------------------------------------
(* examples/ch02/2-2-mod.py                                                *)

Digits == {"0", "1", "2", "3", "4", "5", "6", "7", "8", "9"}

Uppers == {"A", "B", "C", "D", "E", "F", "G", "H", "I", "J", "K", "L", "M",
           "N", "O", "P", "Q", "R", "S", "T", "U", "V", "W", "X", "Y", "Z"}

isdigit(char) == char \in Digits

isupper(char) == char \in Uppers

TooShort(value) == Len(value) < MIN_PASSWORD_LEN

NoDigit(value) == ~ \E i \in 1..Len(value) : isdigit(value[i])

NoUpper(value) == ~ \E i \in 1..Len(value) : isupper(value[i])

\* validate_password with the uppercase rule checked before the digit rule
validate_password_upper_first(value) ==
  IF TooShort(value) THEN "Password must be at least 8 characters long"
  ELSE IF NoUpper(value)
       THEN "Password must contain at least one uppercase letter"
  ELSE IF NoDigit(value) THEN "Password must contain at least one digit"
  ELSE "ok"

\* UserCreate.validate_password: "ok" when value is returned, else the
\* message of the ValueError raised
validate_password(value) ==
  IF TooShort(value) THEN "Password must be at least 8 characters long"
  ELSE IF NoDigit(value) THEN "Password must contain at least one digit"
  ELSE IF NoUpper(value)
       THEN "Password must contain at least one uppercase letter"
  ELSE "ok"

\* the answer of POST /users: the handler's body, or the validation error
\* the framework answers with before the handler runs
create_user_controller(user) ==
  LET verdict == validate_password(user.password)
  IN  IF verdict = "ok"
      THEN [accepted |-> TRUE, name |-> user.username,
            message |-> "Account successfully created"]
      ELSE [accepted |-> FALSE, name |-> <<>>, message |-> verdict]

---------------------------------------------------------------------------
(* examples/ch02/2-4-mod.py                                                *)

\* a row of table users, a row of table messages
UserRow(id, email, name) == [id |-> id, email |-> email, name |-> name]

MessageRow(id, content, user_id) ==
  [id |-> id, content |-> content, user_id |-> user_id]

\* the id SQLite gives the next row of a table with an INTEGER PRIMARY KEY:
\* one more than the largest id in it
NextId(rows) ==
  IF rows = {} THEN 1
  ELSE (CHOOSE i \in {r.id : r \in rows} : \A r \in rows : r.id <= i) + 1

\* rows with the objects of news inserted in order, each under a fresh id
RECURSIVE InsertAll(_, _)
InsertAll(rows, news) ==
  IF news = <<>> THEN rows
  ELSE InsertAll(rows \cup {[id |-> NextId(rows)] @@ Head(news)}, Tail(news))

\* user1 and user2 of add_sample_data
SampleUsers ==
  <<[email |-> "john@example.com", name |-> "John Doe"],
    [email |-> "jane@example.com", name |-> "Jane Smith"]>>

\* message1, message2 and message3 of add_sample_data
SampleMessages(user1_id, user2_id) ==
  <<[content |-> "Hello, this is my first message", user_id |-> user1_id],
    [content |-> "Another message from me", user_id |-> user1_id],
    [content |-> "Hi there, I'm Jane", user_id |-> user2_id]>>

\* add_sample_data seeding unconditionally
NeedsSeedAlways(users) == TRUE

\* add_sample_data, the test "data already exists" negated
NeedsSeed(users) == ~(Cardinality(users) > 0)

\* UserModel.email is unique: a commit that repeats an email raises
EmailClash(users, news) ==
  \E u \in users : \E i \in 1..Len(news) : u.email = news[i].email

\* the id a committed user has, by email
IdOf(users, email) == (CHOOSE u \in users : u.email = email).id

\* answers of the GET routes
Reply(status, users, msgs) ==
  [status |-> status, users |-> users, messages |-> msgs]

\* Message, the response model: id and content of a row
MessageView(rows) == {[id |-> m.id, content |-> m.content] : m \in rows}

\* get_user_messages(email)
get_user_messages(email, users, msgs) ==
  IF ~ \E u \in users : u.email = email THEN Reply(404, {}, {})
  ELSE Reply(200, {},
             MessageView({m \in msgs : m.user_id = IdOf(users, email)}))

\* get_users()
get_users(users) == Reply(200, users, {})

\* get_user_with_messages(email)
get_user_with_messages(email, users, msgs) ==
  IF ~ \E u \in users : u.email = email THEN Reply(404, {}, {})
  ELSE Reply(200, {u \in users : u.email = email},
             MessageView({m \in msgs : m.user_id = IdOf(users, email)}))

---------------------------------------------------------------------------
(* Bounds and input sets.                                                  *)

MaxIdToks == 3
MaxTextToks == 4
MaxMsgs == 2
MaxPwLen == 8

MaxRuns == 4

TokSeqs(T, n) == UNION {[1..k -> T] : k \in 0..n}

Strings(T, n) == {Concat(f) : f \in TokSeqs(T, n)}

\* backend identifiers: the two the repository uses and all short
\* combinations of the prefix, a colon and a letter
IdToks == {OLLAMA_PREFIX, <<"x">>, <<":">>}

Identifiers ==
  Strings(IdToks, MaxIdToks) \cup {DEFAULT_MODEL, MAIN_MODEL,
                                   <<"x", "-">> \o OLLAMA_PREFIX \o <<"y">>}

RemoteIdentifiers == {MAIN_MODEL, OLLAMA_PREFIX \o <<"x">>}

\* texts the remote model may generate
TextToks == {THINK_START, THINK_END, <<"a">>, <<" ">>}

GeneratedTexts == Strings(TextToks, MaxTextToks)

FewTexts ==
  {<<>>, <<"H","e","l","l","o","!">>,
   THINK_START \o <<"r">> \o THINK_END \o <<"H","e","l","l","o","!">>}

ErrorBodies ==
  {<<>>, <<"m","o","d","e","l"," ","n","o","t"," ","f","o","u","n","d">>}

ErrorStatuses == {404, 500}

\* user prompts of GET /generate/text
Prompts == {<<"h","i">>, <<" ","h","i","\n">>, SYSTEM_TAG \o <<"x">>}

\* message contents of conversations given to the wrapper directly
Contents ==
  {<<>>, <<"h","i">>, <<" ","h","i","\n">>, <<"a","\n","b">>,
   USER_TAG \o <<"x">>, SYSTEM_TAG \o <<"x">>,
   <<"x">> \o NL \o ASSISTANT_TAG}

Roles == {"system", "user", "assistant"}

Messages == {Msg(r, c) : r \in Roles, c \in Contents}

Conversations == TokSeqs(Messages, MaxMsgs)

FewConversations ==
  {<<Msg("system", <<"Y","o","u"," ","a","r","e"," ","h","e","l","p","f",
                     "u","l">>),
     Msg("user", <<"h","i">>)>>}

Optional(S) == {None} \cup {Some(v) : v \in S}

AllArgs ==
  {CallArgs(t, m, k, p) :
     t \in {DEFAULT_TEMPERATURE, 0},
     m \in Optional({0, GEN_MAX_NEW_TOKENS}),
     k \in Optional({0, GEN_TOP_K}),
     p \in Optional({0, GEN_TOP_P})}

DefaultArgs == {CallArgs(DEFAULT_TEMPERATURE, None, None, None)}

PasswordChars == {"a", "A", "1"}

Passwords == TokSeqs(PasswordChars, MaxPwLen)

Usernames == {<<"j","o","h","n">>}

---------------------------------------------------------------------------
(* State machine.                                                          *)

Init ==
  /\ pc = "idle"
  /\ model_name = <<>>
  /\ pipe = NoPipe
  /\ caller = "none"
  /\ messages = <<>>
  /\ formatted_prompt = <<>>
  /\ args = None
  /\ requests = <<>>
  /\ pipeline_loads = <<>>
  /\ pipeline_calls = <<>>
  /\ response = None
  /\ output = None
  /\ error = None
  /\ user_request = None
  /\ user_response = None
  /\ db_users = {}
  /\ db_messages = {}
  /\ seed_pc = "stopped"
  /\ seeded_ids = None
  /\ completed_runs = 0
  /\ interrupted_runs = 0
  /\ api_reply = None

\* load_text_model(model_name)
Load(ids) ==
  /\ pc = "idle"
  /\ \E name \in ids :
       /\ model_name' = name
       /\ IF IsOllama(name)
          THEN /\ pipe' = OllamaModel(OllamaModelName(name))
               /\ UNCHANGED pipeline_loads
          ELSE /\ pipe' = Pipeline(name)
               /\ pipeline_loads' = Append(pipeline_loads, name)
  /\ pc' = "loaded"
  /\ UNCHANGED <<caller, messages, formatted_prompt, args, requests,
                 pipeline_calls, response, output, error, user_request,
                 user_response, seed_vars>>

\* generate_text(pipe, prompt, temperature), up to the call pipe(...)
Format(prompts) ==
  /\ pc = "loaded"
  /\ \E prompt \in prompts :
       LET msgs == <<Msg("system", system_prompt), Msg("user", prompt)>>
       IN  /\ messages' = msgs
           /\ formatted_prompt' =
                IF pipe.kind = "OllamaModel"
                THEN apply_chat_template(msgs, TRUE)
                ELSE HFChatTemplate(msgs)
  /\ args' = Some(CallArgs(DEFAULT_TEMPERATURE, Some(GEN_MAX_NEW_TOKENS),
                           Some(GEN_TOP_K), Some(GEN_TOP_P)))
  /\ caller' = "generate_text"
  /\ pc' = "formatted"
  /\ UNCHANGED <<model_name, pipe, requests, pipeline_loads, pipeline_calls,
                 response, output, error, user_request, user_response, seed_vars>>

\* a caller that uses the wrapper as the pipeline interface allows: formats
\* a conversation of its own with pipe.tokenizer and chooses the arguments
Direct(convs, argsets) ==
  /\ pc = "loaded"
  /\ pipe.kind = "OllamaModel"
  /\ \E conv \in convs, a \in argsets :
       /\ messages' = conv
       /\ formatted_prompt' = apply_chat_template(conv, TRUE)
       /\ args' = Some(a)
  /\ caller' = "direct"
  /\ pc' = "formatted"
  /\ UNCHANGED <<model_name, pipe, requests, pipeline_loads, pipeline_calls,
                 response, output, error, user_request, user_response, seed_vars>>

\* OllamaModel.__call__ up to requests.post
OllamaCall ==
  /\ pc = "formatted"
  /\ pipe.kind = "OllamaModel"
  /\ LET parsed == ParseMessages(formatted_prompt)
     IN  IF parsed.raised
         THEN /\ error' = Some(IndexError)
              /\ pc' = "raised"
              /\ UNCHANGED requests
         ELSE /\ requests' =
                   Append(requests,
                          [url |-> pipe.base_url \o CHAT_PATH,
                           json |-> BuildPayload(pipe.model_name,
                                                 parsed.messages, args[1])])
              /\ pc' = "posted"
              /\ UNCHANGED error
  /\ UNCHANGED <<model_name, pipe, caller, messages, formatted_prompt, args,
                 pipeline_loads, pipeline_calls, response, output,
                 user_request, user_response, seed_vars>>

\* the call of the local pipeline
PipelineCall ==
  /\ pc = "formatted"
  /\ pipe.kind = "Pipeline"
  /\ pipeline_calls' =
       Append(pipeline_calls, [prompt |-> formatted_prompt, args |-> args[1]])
  /\ pc' = "running"
  /\ UNCHANGED <<model_name, pipe, caller, messages, formatted_prompt, args,
                 requests, pipeline_loads, response, output, error,
                 user_request, user_response, seed_vars>>

\* a response of the remote server: status_code, text (the raw body) and
\* content (message.content of the decoded body, None when absent)
Response(status_code, text, content) ==
  [status_code |-> status_code, text |-> text, content |-> content]

\* OllamaResult answering a failed request with an empty text
OllamaResultSwallow(resp) ==
  IF resp.status_code = STATUS_OK
  THEN LET generated_text ==
             IF resp.content = None THEN <<>> ELSE resp.content[1]
       IN  [raised |-> FALSE, generated_text |-> StripThink(generated_text),
            error |-> None]
  ELSE [raised |-> FALSE, generated_text |-> <<>>, error |-> None]

\* OllamaModel.__call__ after requests.post: the value returned or the
\* exception raised
OllamaResult(resp) ==
  IF resp.status_code = STATUS_OK
  THEN LET generated_text ==
             IF resp.content = None THEN <<>> ELSE resp.content[1]
       IN  [raised |-> FALSE, generated_text |-> StripThink(generated_text),
            error |-> None]
  ELSE [raised |-> TRUE, generated_text |-> <<>>,
        error |-> Some(Raised("Exception", API_ERROR_PREFIX \o resp.text))]

\* the server's answer arrives; __call__ finishes and, under generate_text,
\* predictions[0]["generated_text"] is returned
Respond(resps) ==
  /\ pc = "posted"
  /\ \E resp \in resps :
       LET result == OllamaResult(resp)
       IN  /\ response' = Some(resp)
           /\ IF result.raised
              THEN /\ error' = result.error
                   /\ pc' = "raised"
                   /\ UNCHANGED output
              ELSE /\ output' = Some(result.generated_text)
                   /\ pc' = "returned"
                   /\ UNCHANGED error
  /\ UNCHANGED <<model_name, pipe, caller, messages, formatted_prompt, args,
                 requests, pipeline_loads, pipeline_calls, user_request,
                 user_response, seed_vars>>

\* requests.post raises (no connection): the exception propagates
PostFails ==
  /\ pc = "posted"
  /\ error' = Some(Raised("ConnectionError", <<>>))
  /\ pc' = "raised"
  /\ UNCHANGED <<model_name, pipe, caller, messages, formatted_prompt, args,
                 requests, pipeline_loads, pipeline_calls, response, output,
                 user_request, user_response, seed_vars>>

\* the local pipeline returns the prompt followed by its completion
PipelineReturn(completions) ==
  /\ pc = "running"
  /\ \E completion \in completions :
       output' = Some(LocalOutput(formatted_prompt \o completion))
  /\ pc' = "returned"
  /\ UNCHANGED <<model_name, pipe, caller, messages, formatted_prompt, args,
                 requests, pipeline_loads, pipeline_calls, response, error,
                 user_request, user_response, seed_vars>>

\* the local pipeline raises: the exception propagates
PipelineRaises ==
  /\ pc = "running"
  /\ error' = Some(Raised("RuntimeError", <<>>))
  /\ pc' = "raised"
  /\ UNCHANGED <<model_name, pipe, caller, messages, formatted_prompt, args,
                 requests, pipeline_loads, pipeline_calls, response, output,
                 user_request, user_response, seed_vars>>

\* POST /users
PostUsers(names, passwords) ==
  /\ user_request = None
  /\ \E n \in names, p \in passwords :
       LET user == [username |-> n, password |-> p]
       IN  /\ user_request' = Some(user)
           /\ user_response' = Some(create_user_controller(user))
  /\ UNCHANGED adapter_vars
  /\ UNCHANGED seed_vars

\* lifespan at startup: a session is opened and add_sample_data runs up to
\* its test; when data exists it returns, the session is closed and the
\* application serves
StartSeeding ==
  /\ seed_pc = "stopped"
  /\ completed_runs + interrupted_runs < MaxRuns
  /\ IF NeedsSeed(db_users)
     THEN /\ seed_pc' = "adding_users"
          /\ UNCHANGED completed_runs
     ELSE /\ seed_pc' = "serving"
          /\ completed_runs' = completed_runs + 1
  /\ seeded_ids' = None
  /\ api_reply' = None
  /\ UNCHANGED <<db_users, db_messages, interrupted_runs>>
  /\ UNCHANGED adapter_vars
  /\ UNCHANGED <<user_request, user_response>>

\* add_sample_data: user1 and user2 are added and committed
CommitUsers ==
  /\ seed_pc = "adding_users"
  /\ IF EmailClash(db_users, SampleUsers)
     THEN /\ seed_pc' = "failed"
          /\ UNCHANGED <<db_users, seeded_ids>>
     ELSE LET user1_id == NextId(db_users)
              user2_id == user1_id + 1
          IN  /\ db_users' = InsertAll(db_users, SampleUsers)
              /\ seeded_ids' = Some(<<user1_id, user2_id>>)
              /\ seed_pc' = "adding_messages"
  /\ UNCHANGED <<db_messages, completed_runs, interrupted_runs, api_reply>>
  /\ UNCHANGED adapter_vars
  /\ UNCHANGED <<user_request, user_response>>

\* add_sample_data: the three messages are added and committed; the run
\* returns, the session is closed and the application serves
CommitMessages ==
  /\ seed_pc = "adding_messages"
  /\ db_messages' =
       InsertAll(db_messages, SampleMessages(seeded_ids[1][1], seeded_ids[1][2]))
  /\ seed_pc' = "serving"
  /\ completed_runs' = completed_runs + 1
  /\ UNCHANGED <<db_users, seeded_ids, interrupted_runs, api_reply>>
  /\ UNCHANGED adapter_vars
  /\ UNCHANGED <<user_request, user_response>>

\* the process ends during add_sample_data: what was committed stays in
\* test.db, what was only added to the session is lost
Interrupt ==
  /\ seed_pc \in {"adding_users", "adding_messages"}
  /\ seed_pc' = "stopped"
  /\ seeded_ids' = None
  /\ interrupted_runs' = interrupted_runs + 1
  /\ UNCHANGED <<db_users, db_messages, completed_runs, api_reply>>
  /\ UNCHANGED adapter_vars
  /\ UNCHANGED <<user_request, user_response>>

\* the application stops; test.db stays
Shutdown ==
  /\ seed_pc = "serving"
  /\ seed_pc' = "stopped"
  /\ seeded_ids' = None
  /\ api_reply' = None
  /\ UNCHANGED <<db_users, db_messages, completed_runs, interrupted_runs>>
  /\ UNCHANGED adapter_vars
  /\ UNCHANGED <<user_request, user_response>>

\* a GET route answers; the database is only read
Get(reply) ==
  /\ seed_pc = "serving"
  /\ api_reply' = Some(reply)
  /\ UNCHANGED <<db_users, db_messages, seed_pc, seeded_ids, completed_runs,
                 interrupted_runs>>
  /\ UNCHANGED adapter_vars
  /\ UNCHANGED <<user_request, user_response>>

GetUsers == Get(get_users(db_users))

GetUserMessages ==
  \E email \in {"john@example.com", "jane@example.com", "nobody@example.com"} :
    Get(get_user_messages(email, db_users, db_messages))

GetUserWithMessages ==
  \E email \in {"john@example.com", "jane@example.com", "nobody@example.com"} :
    Get(get_user_with_messages(email, db_users, db_messages))

---------------------------------------------------------------------------
(* Specifications.                                                         *)

OkResponses(texts) ==
  {Response(STATUS_OK, <<>>, c) : c \in Optional(texts)}

ErrorResponses ==
  {Response(st, body, None) : st \in ErrorStatuses, body \in ErrorBodies}

\* the adapter end to end: every identifier, both callers, every
\* combination of optional arguments, both kinds of answer
LoadTextModel == Load(Identifiers)
GenerateText == Format(Prompts)
DirectCall == Direct(FewConversations, AllArgs)
RemoteResponse == Respond(OkResponses(FewTexts) \cup ErrorResponses)
LocalResponse == PipelineReturn(FewTexts)

Next ==
  \/ LoadTextModel
  \/ GenerateText
  \/ DirectCall
  \/ OllamaCall
  \/ PipelineCall
  \/ RemoteResponse
  \/ PostFails
  \/ LocalResponse
  \/ PipelineRaises

Spec == Init /\ [][Next]_vars

\* the remote path with every conversation
LoadRemote == Load(RemoteIdentifiers)
DirectConversation == Direct(Conversations, DefaultArgs)

NextParse ==
  \/ LoadRemote
  \/ GenerateText
  \/ DirectConversation
  \/ OllamaCall

SpecParse == Init /\ [][NextParse]_vars

\* the remote path with every generated text
DirectFew == Direct(FewConversations, DefaultArgs)
GeneratedResponse == Respond(OkResponses(GeneratedTexts) \cup ErrorResponses)

NextStrip ==
  \/ LoadRemote
  \/ GenerateText
  \/ DirectFew
  \/ OllamaCall
  \/ GeneratedResponse

SpecStrip == Init /\ [][NextStrip]_vars

\* the user-creation endpoint with every password
CreateUser == PostUsers(Usernames, Passwords)

NextUsers == CreateUser

SpecUsers == Init /\ [][NextUsers]_vars

---------------------------------------------------------------------------
(* Properties.                                                             *)

\* OllamaModel.__call__ has run as far as requests.post or an exception
RemoteCalled ==
  pipe.kind = "OllamaModel" /\ pc \in {"posted", "returned", "raised"}

\* the message list of the first request sent
Sent == requests[1].json["messages"]

TagFree(content) ==
  /\ ~In(SYSTEM_TAG, content)
  /\ ~In(USER_TAG, content)
  /\ ~In(ASSISTANT_TAG, content)

\* a conversation of one user message, or a system message and then a user
\* message, whose contents hold none of the three tags
SystemUserShape(conv) ==
  /\ \/ Len(conv) = 1 /\ conv[1].role = "user"
     \/ Len(conv) = 2 /\ conv[1].role = "system" /\ conv[2].role = "user"
  /\ \A i \in 1..Len(conv) : TagFree(conv[i].content)

Trimmed(conv) ==
  [i \in 1..Len(conv) |-> Msg(conv[i].role, strip(conv[i].content))]

\* C1 as stated: for every conversation over the roles system, user and
\* assistant, the message list sent to the remote backend, re-parsed from
\* the formatted prompt, equals the conversation (same roles in the same
\* order, same content per message).
C1_RoundTrip ==
  RemoteCalled => /\ requests # <<>>
                  /\ Sent = messages

\* C1 amended: for a conversation that is one user message, or one system
\* message followed by one user message, with contents free of the three
\* tags, the message list sent has the same roles in the same order and
\* each content equals the original content with leading and trailing
\* whitespace removed.
C1_RoundTripAmended ==
  (RemoteCalled /\ SystemUserShape(messages))
    => /\ requests # <<>>
       /\ Sent = Trimmed(messages)

C1_Witness ==
  /\ pc = "posted"
  /\ caller = "direct"
  /\ SystemUserShape(messages)
  /\ Len(messages) = 2
  /\ messages[2].content = <<" ", "h", "i", "\n">>
  /\ Sent[2].content = <<"h", "i">>

\* the remote call returned a text for an answer with status 200
Returned200 ==
  /\ pipe.kind = "OllamaModel"
  /\ pc = "returned"
  /\ response # None
  /\ response[1].status_code = 200

\* message.content of the answer ("" when the key is absent)
Generated == IF response[1].content = None THEN <<>> ELSE response[1].content[1]

Offsets(text) == 0..Len(text)

\* marker occurs in text at offset i and nowhere before
FirstAt(text, marker, i) ==
  /\ MatchAt(text, marker, i)
  /\ \A j \in 0..(i - 1) : ~MatchAt(text, marker, j)

Occurs(text, marker) == \E i \in Offsets(text) : MatchAt(text, marker, i)

\* some start marker is followed later by an end marker
HasTrace(text) ==
  \E i, j \in Offsets(text) :
    MatchAt(text, THINK_START, i) /\ MatchAt(text, THINK_END, j) /\ i < j

\* C2: when the generated text holds a start marker and an end marker in
\* this order (the first <think> before the first </think>), the text
\* returned is the text before the start marker, verbatim, followed by
\* the trimmed text after the end marker.
C2_StripsSpan ==
  Returned200 =>
    \A i, j \in Offsets(Generated) :
      ( /\ FirstAt(Generated, THINK_START, i)
        /\ FirstAt(Generated, THINK_END, j)
        /\ i < j )
        => output[1] = SubSeq(Generated, 1, i)
                         \o strip(SubSeq(Generated, j + Len(THINK_END) + 1,
                                         Len(Generated)))

C2_Witness ==
  /\ Returned200
  /\ caller = "generate_text"
  /\ Generated = <<"a">> \o THINK_START \o THINK_END \o <<" ">>
  /\ output = Some(<<"a">>)

\* C3: every text returned on the remote path with status 200 is free of
\* reasoning traces: no <think> in it is followed later by a </think>.
C3_NoTraceReturned ==
  Returned200 => ~HasTrace(output[1])

\* C4: when both markers occur in the generated text but every </think>
\* precedes every <think>, the text returned is the generated text.
C4_UnmatchedUnchanged ==
  ( /\ Returned200
    /\ Occurs(Generated, THINK_START)
    /\ Occurs(Generated, THINK_END)
    /\ ~HasTrace(Generated) )
    => output[1] = Generated

\* C5: when the generated text holds only a start marker or only an end
\* marker, the text returned equals the generated text.
C5_SingleMarkerNoOp ==
  ( /\ Returned200
    /\ Occurs(Generated, THINK_START) # Occurs(Generated, THINK_END) )
    => output[1] = Generated

C5_Witness ==
  /\ Returned200
  /\ Generated = <<" ">> \o THINK_END \o <<"a", " ">>
  /\ output = Some(Generated)

HasRemotePrefix(name) ==
  /\ Len(name) >= Len(OLLAMA_PREFIX)
  /\ SubSeq(name, 1, Len(OLLAMA_PREFIX)) = OLLAMA_PREFIX

Remainder(name) == SubSeq(name, Len(OLLAMA_PREFIX) + 1, Len(name))

\* C6: for an identifier that starts with "ollama:", the remote backend is
\* selected with the whole remainder of the identifier as its model name,
\* the request goes to the remote path, and the local pipeline is neither
\* constructed nor invoked.
C6_RemoteRoute ==
  (pc # "idle" /\ HasRemotePrefix(model_name))
    => /\ pipe.kind = "OllamaModel"
       /\ pipe.model_name = Remainder(model_name)
       /\ pipeline_loads = <<>>
       /\ pipeline_calls = <<>>
       /\ pc \in {"posted", "returned"}
            => /\ Len(requests) = 1
               /\ requests[1].url = BASE_URL \o CHAT_PATH
               /\ requests[1].json["model"] = Remainder(model_name)

\* C7: for an identifier that does not start with "ollama:", the local
\* pipeline is constructed with the full identifier as its model name and
\* invoked, and no request is made to the remote endpoint.
C7_LocalRoute ==
  (pc # "idle" /\ ~HasRemotePrefix(model_name))
    => /\ pipe.kind = "Pipeline"
       /\ pipe.model_name = model_name
       /\ pipeline_loads = <<model_name>>
       /\ requests = <<>>
       /\ pc \in {"running", "returned", "raised"}
            => /\ Len(pipeline_calls) = 1
               /\ pipeline_calls[1].prompt = formatted_prompt

C7_Witness ==
  /\ pc = "returned"
  /\ model_name = <<"x", "-">> \o OLLAMA_PREFIX \o <<"y">>
  /\ output # None
  /\ Len(pipeline_calls) = 1
  /\ requests = <<>>

RequiredKeys == {"model", "messages", "temperature", "stream"}

\* key is in the body exactly when the argument was supplied, and then
\* with the value supplied
KeyIffSupplied(json, key, value) ==
  /\ key \in DOMAIN json <=> value # None
  /\ key \in DOMAIN json => json[key] = value[1]

\* C8: in every request body, max_tokens, top_p and top_k are present
\* exactly when max_new_tokens, top_p and top_k were supplied, with the
\* value supplied (zero included); model, messages, temperature and
\* stream = false are always present.
C8_OptionalKeys ==
  \A i \in 1..Len(requests) :
    LET json == requests[i].json
    IN  /\ KeyIffSupplied(json, "max_tokens", args[1].max_new_tokens)
        /\ KeyIffSupplied(json, "top_p", args[1].top_p)
        /\ KeyIffSupplied(json, "top_k", args[1].top_k)
        /\ RequiredKeys \subseteq DOMAIN json
        /\ DOMAIN json \subseteq RequiredKeys \cup {"max_tokens", "top_p", "top_k"}
        /\ json["stream"] = FALSE
        /\ json["temperature"] = args[1].temperature

C8_Witness ==
  /\ pc = "posted"
  /\ args[1].max_new_tokens = None
  /\ args[1].top_k = Some(0)
  /\ "max_tokens" \notin DOMAIN requests[1].json
  /\ requests[1].json["top_k"] = 0

EndsWith(s, suffix) ==
  /\ Len(s) >= Len(suffix)
  /\ SubSeq(s, Len(s) - Len(suffix) + 1, Len(s)) = suffix

\* C9: once the remote server has answered with a status other than 200,
\* the call has failed with an error that carries the raw response body,
\* no text is returned, exactly one request was issued, the local
\* pipeline was neither constructed nor invoked, and no further step of
\* the call (retry or fallback) can follow.
C9_NonOkFails ==
  (response # None /\ response[1].status_code # 200)
    => /\ pc = "raised"
       /\ error # None
       /\ error[1].type = "Exception"
       /\ EndsWith(error[1].message, response[1].text)
       /\ output = None
       /\ Len(requests) = 1
       /\ pipeline_loads = <<>>
       /\ pipeline_calls = <<>>
       /\ ~ENABLED Next

C9_Witness ==
  /\ caller = "generate_text"
  /\ pc = "raised"
  /\ response # None
  /\ response[1].status_code = 500
  /\ response[1].text =
       <<"m","o","d","e","l"," ","n","o","t"," ","f","o","u","n","d">>
  /\ error[1].message = API_ERROR_PREFIX \o response[1].text

\* C10: a user-creation request is accepted, with the message "Account
\* successfully created", exactly when its password has at least 8
\* characters, a digit and an uppercase letter; otherwise it is rejected
\* with the message of the first rule that fails, in the order length,
\* digit, uppercase, and nothing of the handler's body is in the answer.
C10_PasswordRule ==
  user_response # None =>
    LET pw == user_request[1].password
        r == user_response[1]
        long == Len(pw) >= 8
        digit == \E i \in 1..Len(pw) : pw[i] \in Digits
        upper == \E i \in 1..Len(pw) : pw[i] \in Uppers
    IN  /\ r.accepted <=> (long /\ digit /\ upper)
        /\ r.accepted => /\ r.message = "Account successfully created"
                         /\ r.name = user_request[1].username
        /\ ~r.accepted => r.name = <<>>
        /\ ~long => r.message = "Password must be at least 8 characters long"
        /\ (long /\ ~digit)
             => r.message = "Password must contain at least one digit"
        /\ (long /\ digit /\ ~upper)
             => r.message = "Password must contain at least one uppercase letter"

C10_Witness ==
  /\ user_response # None
  /\ ~user_response[1].accepted
  /\ Len(user_request[1].password) = 8
  /\ \A i \in 1..8 : user_request[1].password[i] = "a"
  /\ user_response[1].message = "Password must contain at least one digit"

\* the persistence example: startups, interrupted or not, and GET requests
NextSeed ==
  \/ StartSeeding
  \/ CommitUsers
  \/ CommitMessages
  \/ Interrupt
  \/ Shutdown
  \/ GetUsers
  \/ GetUserMessages
  \/ GetUserWithMessages

SpecSeed == Init /\ [][NextSeed]_vars

\* every message's user_id is the id of a row of users
ReferencesHold ==
  \A m \in db_messages : \E u \in db_users : u.id = m.user_id

\* what holds in every state: messages refer to users and, when no run was
\* interrupted, no run fails and from the first completed run on the
\* database holds two users and three messages
C11_Seeded ==
  /\ ReferencesHold
  /\ interrupted_runs = 0
       => /\ seed_pc # "failed"
          /\ completed_runs >= 1
               => /\ Cardinality(db_users) = 2
                  /\ Cardinality(db_messages) = 3

\* a run that starts on a database holding a user returns at once and
\* leaves both tables as they are
C11_RunChangesNothing ==
  (seed_pc = "stopped" /\ seed_pc' # "stopped" /\ db_users # {})
    => /\ seed_pc' = "serving"
       /\ completed_runs' = completed_runs + 1
       /\ UNCHANGED <<db_users, db_messages>>

\* C11: seeding is idempotent across startups: starting from an empty
\* database, after any number of completed runs of add_sample_data the
\* database holds exactly two users and three messages, every message's
\* user_id refers to an existing user, and a run on a database that
\* already holds a user changes nothing.
C11_SeedingIdempotent ==
  [] C11_Seeded /\ [][C11_RunChangesNothing]_vars

C11_Witness ==
  /\ completed_runs >= 2
  /\ interrupted_runs = 0
  /\ seed_pc = "serving"
  /\ Cardinality(db_users) = 2
  /\ Cardinality(db_messages) = 3
  /\ api_reply = Some(get_user_messages("john@example.com", db_users, db_messages))
  /\ Cardinality(api_reply[1].messages) = 2

=============================================================================
